---- MODULE Spec2Model ----
(***************************************************************************)
(* State-machine model of the single-node ledger: Blockchain (target,      *)
(* blocks, accounts), Transaction::execute, Blockchain::append_block and   *)
(* Blockchain::validate, driven through the Block builder the callers use. *)
(*                                                                         *)
(* Option<T> is modelled as a sequence: <<>> is None, <<x>> is Some(x).    *)
(* u128 is modelled with U128Bits bits, a hash as HashLen hex digits.      *)
(***************************************************************************)
EXTENDS Integers, Sequences, FiniteSets, TLC

\* ------------------------------------------------------------------ bounds
\* width of the unsigned integer type (u128 in the source)
U128Bits == 16
\* number of hex digits of a hex-encoded digest (64 in the source)
HashLen == 5
\* longest chain the callers build
MaxBlocks == 2
\* most transactions a caller adds to one block
MaxTxs == 2

\* ------------------------------------------------------------------ Option
None == <<>>
Some(x) == <<x>>
IsSome(o) == Len(o) = 1
IsNone(o) == Len(o) = 0
Unwrap(o) == o[1]

\* ------------------------------------------------------------------ integers
U128Modulus == 2 ^ U128Bits
U128Max == U128Modulus - 1
\* 0x00000000ffff0000000000000000000000000000: the top bits of the width set
MaxTarget == U128Modulus - 2 ^ (U128Bits - 4)

\* ------------------------------------------------------------------ inputs
AccountIds == {"alice", "bob", "carol"}
Keys == {"k1", "k2"}
\* amounts: a quarter and a half of the integer range, so that a balance
\* holds Big once but not twice, and the balances callers can reach are few
Small == 2 ^ (U128Bits - 2)
Big == 2 ^ (U128Bits - 1)
\* timestamps (seconds): 10 * 60 seconds is the baseline of one transaction
T0 == 0 * 10 * 60
T1 == 2 * 10 * 60
T2 == 4 * 10 * 60
\* nonces a caller sets (a new block has nonce 0); mined: with them some
\* blocks of the callers below hash to decimal digits under the target
Nonces == {22, 45}

\* ------------------------------------------------------------------ digest
HashSpace == 16 ^ HashLen

\* one absorption step of the digest: order-sensitive, deterministic
Mix(h, x) == (h * 37 + (h \div 64) * (h % 64) + (x % HashSpace) * 11 + 5) % HashSpace

RECURSIVE Absorb(_, _)
Absorb(h, xs) == IF xs = <<>> THEN h ELSE Absorb(Mix(h, Head(xs)), Tail(xs))

Digest(xs) == Absorb(7, xs)

\* hex::encode: the digits of the digest, most significant first
HexEncode(n) == [i \in 1..HashLen |-> (n \div (16 ^ (HashLen - i))) % 16]

\* the bytes of a hex string, as fed back into a hasher
RECURSIVE HexValue(_)
HexValue(s) == IF s = <<>> THEN 0 ELSE HexValue(SubSeq(s, 1, Len(s) - 1)) * 16 + s[Len(s)]

\* str::parse::<u128>(): a DECIMAL parse; it fails on a digit a..f and on a
\* value above the integer width
RECURSIVE DecimalValue(_)
DecimalValue(s) == IF s = <<>> THEN 0 ELSE DecimalValue(SubSeq(s, 1, Len(s) - 1)) * 10 + s[Len(s)]

ParseU128(s) ==
    IF \E i \in 1..Len(s) : s[i] > 9 THEN [ok |-> FALSE, value |-> 0, error |-> "InvalidDigit"]
    ELSE IF DecimalValue(s) > U128Max THEN [ok |-> FALSE, value |-> 0, error |-> "PosOverflow"]
    ELSE [ok |-> TRUE, value |-> DecimalValue(s), error |-> ""]

\* ------------------------------------------------------------------ signatures
\* ed25519: a signature made by a keypair over a message verifies under that
\* keypair's public key and that message only
Sign(key, msg) == [signer |-> key, msg |-> msg]
VerifySignature(public_key, msg, sig) == sig.signer = public_key /\ sig.msg = msg

\* ------------------------------------------------------------------ transactions
CreateAccount(id, key) == [kind |-> "CreateAccount", id |-> id, public_key |-> key, amount |-> 0]
MintInitialSupply(to, amount) == [kind |-> "MintInitialSupply", id |-> to, public_key |-> "", amount |-> amount]
Transfer(to, amount) == [kind |-> "Transfer", id |-> to, public_key |-> "", amount |-> amount]

IdCode(id) == CASE id = "alice" -> 1 [] id = "bob" -> 2 [] id = "carol" -> 3 [] OTHER -> 0
KeyCode(k) == CASE k = "k1" -> 1 [] k = "k2" -> 2 [] OTHER -> 0
KindCode(k) == CASE k = "CreateAccount" -> 1 [] k = "MintInitialSupply" -> 2 [] OTHER -> 3

\* Transaction::new
TransactionNew(data, from, timestamp) ==
    [nonce |-> 0, timestamp |-> timestamp, from |-> from, data |-> data, signature |-> None]

\* Hashable for Transaction: the digest of (nonce, timestamp, from, data);
\* the signature is not part of it
TransactionHash(tx) ==
    HexEncode(Digest(<<tx.nonce, tx.timestamp,
                       IF IsSome(tx.from) THEN 1 + IdCode(Unwrap(tx.from)) ELSE 0,
                       KindCode(tx.data.kind), IdCode(tx.data.id),
                       KeyCode(tx.data.public_key), tx.data.amount>>))

\* Transaction::sign
TransactionSign(tx, signature) == [tx EXCEPT !.signature = signature]

\* ------------------------------------------------------------------ ledger
\* Account::new: a zero-balance account
AccountNew(account_type, public_key) ==
    [account_type |-> account_type, public_key |-> public_key, balance |-> 0]

\* WorldState::get_account_by_id, get_account_by_id_mut
GetAccountById(accts, id) == IF id \in DOMAIN accts THEN Some(accts[id]) ELSE None

\* a create_account that inserts over an account that exists
CreateAccountIn_Overwrites(accts, id, account_type, public_key) ==
    [status |-> "ok", cause |-> "",
     accounts |-> [a \in DOMAIN accts \cup {id} |->
                      IF a = id THEN AccountNew(account_type, public_key) ELSE accts[a]]]

\* WorldState::create_account
CreateAccountIn(accts, id, account_type, public_key) ==
    IF id \in DOMAIN accts
    THEN [status |-> "err", cause |-> "AccountId already exist", accounts |-> accts]
    ELSE [status |-> "ok", cause |-> "",
          accounts |-> [a \in DOMAIN accts \cup {id} |->
                           IF a = id THEN AccountNew(account_type, public_key) ELSE accts[a]]]

\* += on the integer type: aborts when overflow checks are compiled in, wraps
\* otherwise
AddU128(a, b, checks) ==
    IF a + b > U128Max
    THEN (IF checks THEN [ok |-> FALSE, value |-> 0] ELSE [ok |-> TRUE, value |-> (a + b) % U128Modulus])
    ELSE [ok |-> TRUE, value |-> a + b]

\* -= on the integer type
SubU128(a, b, checks) ==
    IF a < b
    THEN (IF checks THEN [ok |-> FALSE, value |-> 0] ELSE [ok |-> TRUE, value |-> (a - b) + U128Modulus])
    ELSE [ok |-> TRUE, value |-> a - b]

\* a mint that any block may carry
MintAllowed_Always(is_genesis) == TRUE

\* the genesis-only guard of MintInitialSupply
MintAllowed(is_genesis) == is_genesis

\* MintInitialSupply arm of Transaction::execute
ExecuteMint(tx, accts, is_genesis, checks) ==
    IF ~MintAllowed(is_genesis)
    THEN [status |-> "err", cause |-> "Initial supply can be minted only in genesis block.", accounts |-> accts]
    ELSE IF IsNone(GetAccountById(accts, tx.data.id))
    THEN [status |-> "err", cause |-> "Invalid account.", accounts |-> accts]
    ELSE LET sum == AddU128(accts[tx.data.id].balance, tx.data.amount, checks) IN
         IF ~sum.ok
         THEN [status |-> "panic", cause |-> "attempt to add with overflow", accounts |-> accts]
         ELSE [status |-> "ok", cause |-> "",
               accounts |-> [accts EXCEPT ![tx.data.id].balance = sum.value]]

\* a Transfer that is executed whatever its signature
SignatureCheck_Skipped(tx, sender) == "ok"

\* the signature check of a Transfer: "ok", "Not sign." or "Invalid signature."
SignatureCheck(tx, sender) ==
    IF IsNone(tx.signature) THEN "Not sign."
    ELSE IF ~VerifySignature(sender.public_key, TransactionHash(tx), Unwrap(tx.signature))
    THEN "Invalid signature."
    ELSE "ok"

\* a Transfer that is executed whatever the sender holds
InsufficientBalance_Never(sender, amount) == FALSE

\* the balance guard of a Transfer
InsufficientBalance(sender, amount) == sender.balance < amount

\* a Transfer that is credited whatever the receiver holds
TypeOverflow_Never(receiver, amount) == FALSE

\* the overflow guard of a Transfer
TypeOverflow(receiver, amount) == U128Max - amount < receiver.balance

\* a Transfer that credits the receiver without debiting the sender
ExecuteTransfer_NoDebit(tx, accts, checks) ==
    IF IsNone(tx.from)
    THEN [status |-> "err", cause |-> "Invalid sender ID.", accounts |-> accts]
    ELSE IF IsNone(GetAccountById(accts, Unwrap(tx.from)))
    THEN [status |-> "err", cause |-> "Invalid sender account.", accounts |-> accts]
    ELSE IF IsNone(GetAccountById(accts, tx.data.id))
    THEN [status |-> "err", cause |-> "Invalid receiver account.", accounts |-> accts]
    ELSE LET sender == accts[Unwrap(tx.from)]
             receiver == accts[tx.data.id]
             amount == tx.data.amount
         IN
         IF SignatureCheck(tx, sender) # "ok"
         THEN [status |-> "err", cause |-> SignatureCheck(tx, sender), accounts |-> accts]
         ELSE IF InsufficientBalance(sender, amount)
         THEN [status |-> "err", cause |-> "Insufficient balance", accounts |-> accts]
         ELSE IF TypeOverflow(receiver, amount)
         THEN [status |-> "err", cause |-> "Type overflow", accounts |-> accts]
         ELSE [status |-> "ok", cause |-> "",
               accounts |-> [accts EXCEPT ![tx.data.id].balance = receiver.balance + amount]]

\* Transfer arm of Transaction::execute
ExecuteTransfer(tx, accts, checks) ==
    IF IsNone(tx.from)
    THEN [status |-> "err", cause |-> "Invalid sender ID.", accounts |-> accts]
    ELSE IF IsNone(GetAccountById(accts, Unwrap(tx.from)))
    THEN [status |-> "err", cause |-> "Invalid sender account.", accounts |-> accts]
    ELSE IF IsNone(GetAccountById(accts, tx.data.id))
    THEN [status |-> "err", cause |-> "Invalid receiver account.", accounts |-> accts]
    ELSE LET senderId == Unwrap(tx.from)
             to == tx.data.id
             sender == accts[senderId]
             receiver == accts[to]
             amount == tx.data.amount
         IN
         IF SignatureCheck(tx, sender) # "ok"
         THEN [status |-> "err", cause |-> SignatureCheck(tx, sender), accounts |-> accts]
         ELSE IF InsufficientBalance(sender, amount)
         THEN [status |-> "err", cause |-> "Insufficient balance", accounts |-> accts]
         ELSE IF TypeOverflow(receiver, amount)
         THEN [status |-> "err", cause |-> "Type overflow", accounts |-> accts]
         ELSE LET debit == SubU128(accts[senderId].balance, amount, checks) IN
              IF ~debit.ok
              THEN [status |-> "panic", cause |-> "attempt to subtract with overflow", accounts |-> accts]
              ELSE LET debited == [accts EXCEPT ![senderId].balance = debit.value]
                       credit == AddU128(debited[to].balance, amount, checks)
                   IN
                   IF ~credit.ok
                   THEN [status |-> "panic", cause |-> "attempt to add with overflow", accounts |-> debited]
                   ELSE [status |-> "ok", cause |-> "",
                         accounts |-> [debited EXCEPT ![to].balance = credit.value]]

\* Transaction::execute
Execute(tx, accts, is_genesis, checks) ==
    CASE tx.data.kind = "CreateAccount" ->
            CreateAccountIn(accts, tx.data.id, "User", tx.data.public_key)
      [] tx.data.kind = "MintInitialSupply" -> ExecuteMint(tx, accts, is_genesis, checks)
      [] OTHER -> ExecuteTransfer(tx, accts, checks)

\* a loop that goes on after a failure and reports the last one
RECURSIVE ExecuteFrom_KeepsGoing(_, _, _, _, _)
ExecuteFrom_KeepsGoing(txs, i, accts, is_genesis, checks) ==
    IF i > Len(txs)
    THEN [status |-> "ok", index |-> Len(txs), cause |-> "", accounts |-> accts]
    ELSE LET res == Execute(txs[i], accts, is_genesis, checks) IN
         IF res.status = "ok"
         THEN ExecuteFrom_KeepsGoing(txs, i + 1, res.accounts, is_genesis, checks)
         ELSE LET rest == ExecuteFrom_KeepsGoing(txs, i + 1, accts, is_genesis, checks) IN
              IF rest.status = "ok"
              THEN [status |-> res.status, index |-> i - 1, cause |-> res.cause, accounts |-> res.accounts]
              ELSE rest

\* the loop of append_block over block.transactions, from transaction i on:
\* it stops at the first transaction that fails (or aborts); index counts from 0
RECURSIVE ExecuteFrom(_, _, _, _, _)
ExecuteFrom(txs, i, accts, is_genesis, checks) ==
    IF i > Len(txs)
    THEN [status |-> "ok", index |-> Len(txs), cause |-> "", accounts |-> accts]
    ELSE LET res == Execute(txs[i], accts, is_genesis, checks) IN
         IF res.status = "ok"
         THEN ExecuteFrom(txs, i + 1, res.accounts, is_genesis, checks)
         ELSE [status |-> res.status, index |-> i - 1, cause |-> res.cause, accounts |-> res.accounts]

\* ------------------------------------------------------------------ Block
\* Hashable for Block: the digest of (nonce, prev_hash, transactions)
BlockHash(b) ==
    HexEncode(Digest(<<b.nonce, IF IsSome(b.prev_hash) THEN 1 + HexValue(Unwrap(b.prev_hash)) ELSE 0>>
                     \o [i \in 1..Len(b.transactions) |-> HexValue(TransactionHash(b.transactions[i]))]))

\* the builder caches the hash after every change
UpdateHash(b) == [b EXCEPT !.hash = Some(BlockHash(b))]

\* Block::new
BlockNew(prev_hash) ==
    UpdateHash([nonce |-> 0, hash |-> None, prev_hash |-> prev_hash, transactions |-> <<>>])

\* Block::set_nonce
BlockSetNonce(b, nonce) == UpdateHash([b EXCEPT !.nonce = nonce])

\* Block::add_transaction
BlockAddTransaction(b, tx) == UpdateHash([b EXCEPT !.transactions = Append(@, tx)])

\* Block::verify: the cached hash is the recomputed one
BlockVerify(b) == IsSome(b.hash) /\ Unwrap(b.hash) = BlockHash(b)

\* ------------------------------------------------------------------ Chain
\* Chain::append: the new block becomes the head
ChainAppend(chain, b) == Append(chain, b)

\* Chain::head
ChainHead(chain) == IF chain = <<>> THEN None ELSE Some(chain[Len(chain)])

\* Chain::iter: from the head back to the first block
ChainIter(chain) == [i \in 1..Len(chain) |-> chain[Len(chain) + 1 - i]]

\* ------------------------------------------------------------------ state
VARIABLES
    target,            \* Blockchain.target
    blocks,            \* Blockchain.blocks, oldest first
    accounts,          \* Blockchain.accounts: AccountId -> Account
    transaction_pool,  \* Blockchain.transaction_pool (never used)
    overflow_checks,   \* whether the build aborts on integer overflow (debug) or wraps (release)
    block,             \* the Block the caller is building, an Option
    call               \* the operation that just returned (or aborted) and its result

vars == <<target, blocks, accounts, transaction_pool, overflow_checks, block, call>>

NoCall == [op |-> "none", status |-> "", error |-> "", cause |-> "", index |-> 0]

\* Blockchain::len
ChainLen == Len(blocks)

\* Blockchain::get_last_block_hash
GetLastBlockHash == IF IsSome(ChainHead(blocks)) THEN Some(BlockHash(Unwrap(ChainHead(blocks)))) ELSE None

\* ------------------------------------------------------------------ append_block
\* a rejection that keeps what the earlier transactions did
RestoreBackup_Skipped(account_backup, live) == live

\* a rejection that clears the ledger
RestoreBackup_Cleared(account_backup, live) == <<>>

\* line 66: the ledger is put back to the snapshot taken before the loop
RestoreBackup(account_backup, live) == account_backup

\* a retarget whose product is neither reduced to the integer width nor clamped
Retarget_Unclamped(tgt, txs, checks) ==
    LET actual == SubU128(txs[Len(txs)].timestamp, txs[1].timestamp, checks)
        raw == actual.value \div (Len(txs) * 10 * 60)
        ratio == IF raw > 4 THEN 4 ELSE raw
    IN  IF ~actual.ok THEN [ok |-> FALSE, cause |-> "attempt to subtract with overflow", target |-> tgt]
        ELSE [ok |-> TRUE, cause |-> "", target |-> tgt * ratio]

\* lines 82-99: the target after a block with these transactions is accepted,
\* from the target it was gated against
Retarget(tgt, txs, checks) ==
    LET first_transaction == txs[1].timestamp
        last_transaction == txs[Len(txs)].timestamp
        actual == SubU128(last_transaction, first_transaction, checks)
        expected == Len(txs) * 10 * 60
        raw == actual.value \div expected
        ratio == IF raw > 4 THEN 4 ELSE raw
        overflows == tgt * ratio > U128Max
        new_target == (tgt * ratio) % U128Modulus
    IN  IF ~actual.ok THEN [ok |-> FALSE, cause |-> "attempt to subtract with overflow", target |-> tgt]
        ELSE IF overflows /\ checks THEN [ok |-> FALSE, cause |-> "attempt to multiply with overflow", target |-> tgt]
        ELSE [ok |-> TRUE, cause |-> "",
              target |-> IF new_target > MaxTarget THEN MaxTarget ELSE new_target]

\* a genesis block that leaves the target as Default::default() made it
GateTarget_Kept(is_genesis, tgt) == tgt

\* lines 73-76: the target a block is gated against; the genesis block fixes
\* self.target to the maximum constant
GateTarget(is_genesis, tgt) == IF is_genesis THEN MaxTarget ELSE tgt

\* an append that overwrites the head instead of adding after it
AppendToChain_ReplacesHead(chain, b) ==
    IF chain = <<>> THEN <<b>> ELSE [chain EXCEPT ![Len(chain)] = b]

\* line 101: self.blocks.append(block)
AppendToChain(chain, b) == ChainAppend(chain, b)

Outcome(status, error, cause, index, tgt, chain, accts) ==
    [call |-> [op |-> "append_block", status |-> status, error |-> error, cause |-> cause, index |-> index],
     target |-> tgt, blocks |-> chain, accounts |-> accts]

\* structural checks that look at the transactions before the hash
StructuralCheck_EmptyFirst(b) ==
    IF Len(b.transactions) = 0 THEN "Block has 0 transactions."
    ELSE IF ~BlockVerify(b) THEN "Block has invalid hash"
    ELSE ""

\* lines 53-60: the error of the structural checks, "" when the block passes
StructuralCheck(b) ==
    IF ~BlockVerify(b) THEN "Block has invalid hash"
    ELSE IF Len(b.transactions) = 0 THEN "Block has 0 transactions."
    ELSE ""

\* line 67: what the Err of a transaction failure holds, the String
\* format!("Error during tx execution: {}", error); call.index is the loop's
\* position at the failure and is not part of it
ReturnedError(c) == [message |-> c.error, cause |-> c.cause]

\* an append_block that fixes the target of the first block before it
\* executes the transactions
AppendBlockOn_TargetFirst(b, tgt, chain, accts, checks) ==
    IF StructuralCheck(b) # "" THEN Outcome("Err", StructuralCheck(b), "", 0, tgt, chain, accts)
    ELSE
    LET is_genesis == Len(chain) = 0
        gated == GateTarget(is_genesis, tgt)
        run == ExecuteFrom(b.transactions, 1, accts, is_genesis, checks)
        parsed == ParseU128(BlockHash(b))
        re == Retarget(gated, b.transactions, checks)
    IN
    IF run.status = "err"
    THEN Outcome("Err", "Error during tx execution", run.cause, run.index, gated, chain,
                 RestoreBackup(accts, run.accounts))
    ELSE IF run.status = "panic"
    THEN Outcome("panic", run.cause, "in Transaction::execute", run.index, gated, chain, run.accounts)
    ELSE IF ~is_genesis /\ ~parsed.ok
    THEN Outcome("panic", "called Result::unwrap() on an Err value", parsed.error, 0, tgt, chain, run.accounts)
    ELSE IF ~is_genesis /\ parsed.value >= tgt
    THEN Outcome("Err", "The hash of block more than target.", "", 0, tgt, chain, run.accounts)
    ELSE IF ~re.ok
    THEN Outcome("panic", re.cause, "in Blockchain::append_block", 0, gated, chain, run.accounts)
    ELSE Outcome("Ok", "", "", 0, re.target, AppendToChain(chain, b), run.accounts)

\* Blockchain::append_block(b) on the state (tgt, chain, accts): the result and
\* the state it leaves. An abort (panic) leaves the state as it was at the abort.
AppendBlockOn(b, tgt, chain, accts, checks) ==
    IF StructuralCheck(b) # "" THEN Outcome("Err", StructuralCheck(b), "", 0, tgt, chain, accts)
    ELSE
    LET is_genesis == Len(chain) = 0
        account_backup == accts
        run == ExecuteFrom(b.transactions, 1, accts, is_genesis, checks)
    IN
    IF run.status = "err"
    THEN Outcome("Err", "Error during tx execution", run.cause, run.index, tgt, chain,
                 RestoreBackup(account_backup, run.accounts))
    ELSE IF run.status = "panic"
    THEN Outcome("panic", run.cause, "in Transaction::execute", run.index, tgt, chain, run.accounts)
    ELSE
    LET parsed == ParseU128(BlockHash(b))
        gated == GateTarget(is_genesis, tgt)
        re == Retarget(gated, b.transactions, checks)
    IN
    IF ~is_genesis /\ ~parsed.ok
    THEN Outcome("panic", "called Result::unwrap() on an Err value", parsed.error, 0, tgt, chain, run.accounts)
    ELSE IF ~is_genesis /\ parsed.value >= tgt
    THEN Outcome("Err", "The hash of block more than target.", "", 0, tgt, chain, run.accounts)
    ELSE IF ~re.ok
    THEN Outcome("panic", re.cause, "in Blockchain::append_block", 0, gated, chain, run.accounts)
    ELSE Outcome("Ok", "", "", 0, re.target, AppendToChain(chain, b), run.accounts)

\* ------------------------------------------------------------------ validate
\* a validate that never compares a prev_hash with the preceding block's hash
RECURSIVE ValidateFrom_NoLink(_, _, _, _)
ValidateFrom_NoLink(it, k, block_num, prev_block_hash) ==
    IF k > Len(it) THEN [status |-> "Ok", error |-> "", index |-> 0]
    ELSE
    LET b == it[k]
        is_genesis == block_num = 1
    IN
    IF ~BlockVerify(b) THEN [status |-> "Err", error |-> "Block has invalid hash", index |-> block_num]
    ELSE IF ~is_genesis /\ IsNone(b.prev_hash)
    THEN [status |-> "Err", error |-> "Block doesn't have prev_hash", index |-> block_num]
    ELSE IF is_genesis /\ IsSome(b.prev_hash)
    THEN [status |-> "Err", error |-> "Genesis block shouldn't have prev_hash", index |-> block_num]
    ELSE ValidateFrom_NoLink(it, k + 1, block_num - 1, b.prev_hash)

\* Blockchain::validate: the loop over blocks.iter(), at position k of it
RECURSIVE ValidateFrom(_, _, _, _)
ValidateFrom(it, k, block_num, prev_block_hash) ==
    IF k > Len(it) THEN [status |-> "Ok", error |-> "", index |-> 0]
    ELSE
    LET b == it[k]
        is_genesis == block_num = 1
    IN
    IF ~BlockVerify(b) THEN [status |-> "Err", error |-> "Block has invalid hash", index |-> block_num]
    ELSE IF ~is_genesis /\ IsNone(b.prev_hash)
    THEN [status |-> "Err", error |-> "Block doesn't have prev_hash", index |-> block_num]
    ELSE IF is_genesis /\ IsSome(b.prev_hash)
    THEN [status |-> "Err", error |-> "Genesis block shouldn't have prev_hash", index |-> block_num]
    ELSE IF block_num # Len(it) /\ IsSome(prev_block_hash) /\ Unwrap(prev_block_hash) # Unwrap(b.hash)
    THEN [status |-> "Err", error |-> "Block prev_hash doesn't match Block hash", index |-> block_num]
    ELSE ValidateFrom(it, k + 1, block_num - 1, b.prev_hash)

ValidateOn(chain) == ValidateFrom(ChainIter(chain), 1, Len(chain), None)

\* ------------------------------------------------------------------ actions
Running == call.status # "panic"

\* Blockchain::new(): Default::default()
Init ==
    /\ target = 0
    /\ blocks = <<>>
    /\ accounts = <<>>
    /\ transaction_pool = <<>>
    /\ overflow_checks \in BOOLEAN
    /\ block = None
    /\ call = NoCall

\* the caller starts a block: Block::new(prev_hash)
NewBlock(prev_hash) ==
    /\ Running
    /\ IsNone(block)
    /\ Len(blocks) < MaxBlocks
    /\ block' = Some(BlockNew(prev_hash))
    /\ call' = NoCall
    /\ UNCHANGED <<target, blocks, accounts, transaction_pool, overflow_checks>>

\* block.set_nonce(nonce)
SetNonce(nonce) ==
    /\ Running
    /\ IsSome(block)
    /\ Unwrap(block).nonce # nonce
    /\ block' = Some(BlockSetNonce(Unwrap(block), nonce))
    /\ UNCHANGED <<target, blocks, accounts, transaction_pool, overflow_checks, call>>

\* block.add_transaction(tx)
AddTransaction(tx) ==
    /\ Running
    /\ IsSome(block)
    /\ block' = Some(BlockAddTransaction(Unwrap(block), tx))
    /\ UNCHANGED <<target, blocks, accounts, transaction_pool, overflow_checks, call>>

\* bc.append_block(block): the block is moved into the call
AppendBlock ==
    /\ Running
    /\ IsSome(block)
    /\ LET out == AppendBlockOn(Unwrap(block), target, blocks, accounts, overflow_checks) IN
        /\ target' = out.target
        /\ blocks' = out.blocks
        /\ accounts' = out.accounts
        /\ call' = out.call
    /\ block' = None
    /\ UNCHANGED <<transaction_pool, overflow_checks>>

\* bc.validate()
Validate ==
    /\ Running
    /\ IsNone(block)
    /\ call.op # "validate"
    /\ LET v == ValidateOn(blocks) IN
         call' = [op |-> "validate", status |-> v.status, error |-> v.error, cause |-> "", index |-> v.index]
    /\ UNCHANGED <<target, blocks, accounts, transaction_pool, overflow_checks, block>>

\* ------------------------------------------------------------------ callers' inputs
SignedBy(tx, key) == TransactionSign(tx, Some(Sign(key, TransactionHash(tx))))

\* a hash that is the hash of no block of the chain
StaleHash == HexEncode(0)

PrevHashInputs == {None, GetLastBlockHash, Some(StaleHash)}

PendingTxs == Len(Unwrap(block).transactions)

\* ------------------------------------------------------------------ Spec
\* callers that create accounts and mint
TxInputs ==
    { TransactionNew(CreateAccount("alice", "k1"), None, T0),
      TransactionNew(CreateAccount("bob", "k2"), None, T1),
      TransactionNew(CreateAccount("alice", "k2"), None, T1),
      TransactionNew(MintInitialSupply("alice", Big), None, T1),
      TransactionNew(MintInitialSupply("alice", Small), None, T0),
      TransactionNew(MintInitialSupply("bob", Small), None, T0) }

Next ==
    \/ \E prev_hash \in PrevHashInputs : NewBlock(prev_hash)
    \/ \E nonce \in Nonces : SetNonce(nonce)
    \/ \E tx \in TxInputs : IsSome(block) /\ PendingTxs < MaxTxs /\ AddTransaction(tx)
    \/ AppendBlock
    \/ Validate

Spec == Init /\ [][Next]_vars

\* ------------------------------------------------------------------ SpecTamper
\* code of the crate that rewrites the data of a stored transaction in place,
\* as test_validate does: blocks[i].transactions[j].data = data
TamperStored(i, j, data) ==
    /\ Running
    /\ IsNone(block)
    /\ blocks[i].transactions[j].data # data
    /\ blocks' = [blocks EXCEPT ![i].transactions[j].data = data]
    /\ call' = NoCall
    /\ UNCHANGED <<target, accounts, transaction_pool, overflow_checks, block>>

TamperData == {MintInitialSupply("alice", Small)}

NextTamper ==
    \/ Next
    \/ \E i \in 1..Len(blocks) : \E j \in 1..Len(blocks[i].transactions) : \E data \in TamperData :
          TamperStored(i, j, data)

SpecTamper == Init /\ [][NextTamper]_vars

\* ------------------------------------------------------------------ SpecTransfer
\* callers that set accounts up in the first block, in the order of
\* test_transfer_transaction, and transfer in the later ones
SetupInputs ==
    << { TransactionNew(CreateAccount("alice", "k1"), None, T0) },
       { TransactionNew(MintInitialSupply("alice", Big), None, T0),
         TransactionNew(MintInitialSupply("alice", Small), None, T0) },
       { TransactionNew(CreateAccount("bob", "k2"), None, T0) },
       { TransactionNew(MintInitialSupply("bob", Big), None, T0),
         TransactionNew(MintInitialSupply("bob", Small), None, T0),
         TransactionNew(MintInitialSupply("bob", Small), None, T2) } >>

TransferInputs ==
    LET a2b(amount) == TransactionNew(Transfer("bob", amount), Some("alice"), T0) IN
    { a2b(Small), SignedBy(a2b(Small), "k1"), SignedBy(a2b(Small), "k2"),
      a2b(Big), SignedBy(a2b(Big), "k1"), SignedBy(a2b(Big), "k2"),
      SignedBy(TransactionNew(Transfer("alice", Small), Some("bob"), T0), "k2"),
      SignedBy(TransactionNew(Transfer("alice", Small), Some("alice"), T0), "k1"),
      SignedBy(TransactionNew(Transfer("bob", Small), None, T0), "k1") }

NextTransfer ==
    \/ \E prev_hash \in PrevHashInputs : NewBlock(prev_hash)
    \/ \E nonce \in Nonces : SetNonce(nonce)
    \/ /\ IsSome(block) /\ Len(blocks) = 0 /\ PendingTxs < Len(SetupInputs)
       /\ \E tx \in SetupInputs[PendingTxs + 1] : AddTransaction(tx)
    \/ /\ IsSome(block) /\ Len(blocks) > 0 /\ PendingTxs < MaxTxs
       /\ \E tx \in TransferInputs : AddTransaction(tx)
    \/ AppendBlock

SpecTransfer == Init /\ [][NextTransfer]_vars

\* ------------------------------------------------------------------ SpecAdmission
\* callers whose blocks differ in the spread of their timestamps, and code of
\* the crate that rewrites a field of the block it builds without the
\* builder, so that the cached hash is stale
RewritePrevHash(prev_hash) ==
    /\ Running
    /\ IsSome(block)
    /\ Unwrap(block).prev_hash # prev_hash
    /\ block' = Some([Unwrap(block) EXCEPT !.prev_hash = prev_hash])
    /\ UNCHANGED <<target, blocks, accounts, transaction_pool, overflow_checks, call>>

AdmissionNonces == {12}

AdmissionInputs ==
    { TransactionNew(CreateAccount("alice", "k1"), None, T0),
      TransactionNew(CreateAccount("alice", "k1"), None, T2),
      TransactionNew(MintInitialSupply("alice", Small), None, T1),
      TransactionNew(CreateAccount("bob", "k2"), None, T0),
      TransactionNew(CreateAccount("bob", "k2"), None, T2),
      TransactionNew(CreateAccount("carol", "k1"), None, T1) }

NextAdmission ==
    \/ \E prev_hash \in {None, GetLastBlockHash} : NewBlock(prev_hash)
    \/ \E nonce \in AdmissionNonces : SetNonce(nonce)
    \/ \E tx \in AdmissionInputs : IsSome(block) /\ PendingTxs < MaxTxs /\ AddTransaction(tx)
    \/ \E prev_hash \in {None, Some(StaleHash)} : RewritePrevHash(prev_hash)
    \/ AppendBlock

SpecAdmission == Init /\ [][NextAdmission]_vars

\* ------------------------------------------------------------------ properties
\* a step that is a call of append_block: block is the argument, call' the result
AppendStep == IsSome(block) /\ call'.op = "append_block"

Arg == Unwrap(block)

TxFailed(c) == c.op = "append_block" /\ c.status = "Err" /\ c.error = "Error during tx execution"

\* the loop of append_block on the argument, from the state before the call
ArgRun == ExecuteFrom(Arg.transactions, 1, accounts, Len(blocks) = 0, overflow_checks)

\* C1: whenever a transaction of the block fails in execute, also after
\* earlier transactions of the block succeeded, append_block returns an
\* error and the ledger (ids, balances, public keys) is as before the call.
C1_AtomicOnTxFailure ==
    [][(AppendStep /\ ArgRun.status = "err")
         => (call'.status = "Err" /\ accounts' = accounts)]_vars

\* a block was rejected at its second or a later transaction, on a non-empty chain
C1_Witness == TxFailed(call) /\ call.index >= 1 /\ Len(blocks) >= 1 /\ DOMAIN accounts # {}

\* C2: every append_block call that returns an error of any kind leaves the
\* ledger as it was before the call.
C2_ErrorLeavesLedger ==
    [][(AppendStep /\ call'.status = "Err") => accounts' = accounts]_vars

\* C3: the first accepted block has no prev_hash and every later accepted
\* block's prev_hash is the hash of the block accepted before it.
C3_HashChainLinked ==
    /\ Len(blocks) >= 1 => IsNone(blocks[1].prev_hash)
    /\ \A i \in 2..Len(blocks) : blocks[i].prev_hash = Some(BlockHash(blocks[i - 1]))

\* C4: validate() returns Ok on every chain built through append_block calls.
C4_ValidateAcceptsAppended == ValidateOn(blocks).status = "Ok"

HasMint(b) == \E i \in 1..Len(b.transactions) : b.transactions[i].data.kind = "MintInitialSupply"

GenesisOnly == "Initial supply can be minted only in genesis block."

\* C6: once the chain holds a block, a MintInitialSupply fails with the
\* genesis-only error whether or not its target account exists; a block that
\* contains one is rejected and leaves every balance (and the chain) as it was.
C6_MintOnlyInGenesis ==
    [][(AppendStep /\ Len(blocks) >= 1 /\ HasMint(Arg))
         => /\ call'.status = "Err"
            /\ accounts' = accounts
            /\ blocks' = blocks
            /\ \A i \in 1..Len(Arg.transactions) :
                 Arg.transactions[i].data.kind = "MintInitialSupply"
                   => /\ Execute(Arg.transactions[i], accounts, Len(blocks) = 0, overflow_checks).status = "err"
                      /\ Execute(Arg.transactions[i], accounts, Len(blocks) = 0, overflow_checks).cause = GenesisOnly
                      /\ (TxFailed(call') /\ call'.index = i - 1) => call'.cause = GenesisOnly]_vars

\* a block was rejected for a mint to an existing account
C6_Witness ==
    /\ TxFailed(call) /\ call.cause = GenesisOnly /\ Len(blocks) >= 1
    /\ DOMAIN accounts # {}

IsScenarioA(b) ==
    /\ IsNone(b.prev_hash)
    /\ Len(b.transactions) = 2
    /\ b.transactions[1].data.kind = "CreateAccount"
    /\ b.transactions[2].data.kind = "MintInitialSupply"
    /\ b.transactions[2].data.id = b.transactions[1].data.id

\* C10: on a new Blockchain, a first block with prev_hash None holding
\* CreateAccount(id, key) then MintInitialSupply{to: id, amount: n} is
\* accepted: Ok, the chain has one block and the account's balance is n.
C10_ScenarioA ==
    [][(AppendStep /\ Len(blocks) = 0 /\ accounts = <<>> /\ IsScenarioA(Arg))
         => /\ call'.status = "Ok"
            /\ Len(blocks') = 1
            /\ Arg.transactions[1].data.id \in DOMAIN accounts'
            /\ accounts'[Arg.transactions[1].data.id].balance = Arg.transactions[2].data.amount]_vars

\* what validate is to detect in a chain
StoredHashStale(chain) == \E i \in 1..Len(chain) : ~BlockVerify(chain[i])
FirstHasPrev(chain) == Len(chain) >= 1 /\ IsSome(chain[1].prev_hash)
LaterLacksPrev(chain) == \E i \in 2..Len(chain) : IsNone(chain[i].prev_hash)
PrevMismatch(chain) ==
    \E i \in 2..Len(chain) :
        IsSome(chain[i].prev_hash) /\ Unwrap(chain[i].prev_hash) # BlockHash(chain[i - 1])
Corrupted(chain) ==
    StoredHashStale(chain) \/ FirstHasPrev(chain) \/ LaterLacksPrev(chain) \/ PrevMismatch(chain)

ValidateStep == call'.op = "validate" /\ call.op # "validate"

\* C5: validate() returns an error exactly when some block's stored hash is
\* not the hash recomputed from its content, the first block has a prev_hash,
\* a later block has none, or a block's prev_hash is not the hash of the
\* block before it; and it changes neither the chain nor the ledger.
C5_ValidateDetectsCorruption ==
    [][ValidateStep
         => /\ (call'.status = "Err") <=> Corrupted(blocks)
            /\ (call'.status = "Ok") <=> ~Corrupted(blocks)
            /\ blocks' = blocks /\ accounts' = accounts /\ target' = target]_vars

\* validate rejected a chain of two blocks, linked as they should be, for a
\* stored transaction rewritten after acceptance
C5_Witness ==
    /\ call.op = "validate" /\ call.status = "Err" /\ call.error = "Block has invalid hash"
    /\ Len(blocks) = 2
    /\ ~FirstHasPrev(blocks) /\ ~LaterLacksPrev(blocks) /\ ~PrevMismatch(blocks)

\* the ledger when transaction i of the argument executes: the loop over the
\* transactions before it, from the state before the call
PrefixRun(i) ==
    ExecuteFrom(SubSeq(Arg.transactions, 1, i - 1), 1, accounts, Len(blocks) = 0, overflow_checks)

\* a Transfer from an account of the ledger that carries no signature, or one
\* made with a key that is not the key registered for that account
BadSignature(tx, accts) ==
    /\ tx.data.kind = "Transfer"
    /\ IsSome(tx.from) /\ Unwrap(tx.from) \in DOMAIN accts
    /\ \/ IsNone(tx.signature)
       \/ Unwrap(tx.signature).signer # accts[Unwrap(tx.from)].public_key

\* C7: a block that contains a Transfer with no signature, or with a signature
\* made by a key other than the one registered for its from account, is
\* rejected by append_block and every balance is as before the call.
C7_TransferNeedsSignature ==
    [][(AppendStep /\ \E i \in 1..Len(Arg.transactions) : BadSignature(Arg.transactions[i], accounts))
         => (call'.status = "Err" /\ accounts' = accounts)]_vars

\* a block was rejected for the wrong key's signature on its second transfer,
\* after its first transfer had moved funds
C7_Witness ==
    /\ TxFailed(call) /\ call.cause = "Invalid signature." /\ call.index = 1
    /\ Len(blocks) = 1
    /\ "alice" \in DOMAIN accounts /\ accounts["alice"].balance > 0

\* transaction i of the argument is a Transfer signed with its sender's
\* registered key over its own hash, for more than the sender holds when it executes
Overdraws(i) ==
    LET tx == Arg.transactions[i]
        pre == PrefixRun(i)
    IN  /\ pre.status = "ok"
        /\ tx.data.kind = "Transfer"
        /\ IsSome(tx.from) /\ Unwrap(tx.from) \in DOMAIN pre.accounts
        /\ IsSome(tx.signature)
        /\ Unwrap(tx.signature) = Sign(pre.accounts[Unwrap(tx.from)].public_key, TransactionHash(tx))
        /\ tx.data.amount > pre.accounts[Unwrap(tx.from)].balance

BalancesInRange(accts) == \A id \in DOMAIN accts : accts[id].balance \in 0..U128Max

DebitAborted(c) ==
    c.status = "panic" /\ c.error = "attempt to subtract with overflow" /\ c.cause = "in Transaction::execute"

\* C8: a block that contains a correctly signed Transfer for more than its
\* sender holds when it executes is rejected by append_block and every balance
\* is as before the call; no call aborts on a debit below zero and every
\* balance stays an unsigned 128-bit number.
C8_TransferNeedsFunds ==
    [][/\ (AppendStep /\ \E i \in 1..Len(Arg.transactions) : Overdraws(i))
            => (call'.status = "Err" /\ accounts' = accounts)
       /\ ~DebitAborted(call')
       /\ BalancesInRange(accounts')]_vars

\* a block was rejected because its second transfer asked for more than its
\* first transfer had left the sender
C8_Witness ==
    /\ TxFailed(call) /\ call.cause = "Insufficient balance" /\ call.index = 1
    /\ Len(blocks) = 1
    /\ "alice" \in DOMAIN accounts /\ accounts["alice"].balance > 0

\* the first block of Scenario B: it creates S and A and mints to both
IsScenarioBGenesis(g) ==
    /\ Len(g.transactions) = 4
    /\ g.transactions[1].data.kind = "CreateAccount"
    /\ g.transactions[2].data.kind = "MintInitialSupply"
    /\ g.transactions[3].data.kind = "CreateAccount"
    /\ g.transactions[4].data.kind = "MintInitialSupply"
    /\ g.transactions[2].data.id = g.transactions[1].data.id
    /\ g.transactions[4].data.id = g.transactions[3].data.id
    /\ g.transactions[1].data.id # g.transactions[3].data.id

\* the second block of Scenario B on the ledger the first block left: one
\* Transfer from S to A of no more than S holds, signed with S's registered key
IsScenarioB(b) ==
    /\ Len(blocks) = 1 /\ IsScenarioBGenesis(blocks[1])
    /\ LET S == blocks[1].transactions[1].data.id
           A == blocks[1].transactions[3].data.id
           tx == b.transactions[1]
       IN  /\ accounts[S].balance = blocks[1].transactions[2].data.amount
           /\ accounts[A].balance = blocks[1].transactions[4].data.amount
           /\ b.prev_hash = GetLastBlockHash
           /\ Len(b.transactions) = 1
           /\ tx.data.kind = "Transfer" /\ tx.data.id = A /\ tx.from = Some(S)
           /\ tx.data.amount <= accounts[S].balance
           /\ accounts[A].balance + tx.data.amount <= U128Max
           /\ IsSome(tx.signature)
           /\ Unwrap(tx.signature) = Sign(accounts[S].public_key, TransactionHash(tx))

\* C9: after an accepted genesis block that creates S and A and mints s to S
\* and a to A, a second block whose prev_hash is the head hash and that holds
\* one Transfer{to: A, amount: m} from S, m <= s, signed with S's key, is
\* accepted, and then S holds s - m and A holds a + m.
C9_ScenarioB ==
    [][(AppendStep /\ Len(Arg.transactions) >= 1 /\ IsScenarioB(Arg))
         => LET S == blocks[1].transactions[1].data.id
                A == blocks[1].transactions[3].data.id
                m == Arg.transactions[1].data.amount
            IN  /\ call'.status = "Ok"
                /\ accounts'[S].balance = accounts[S].balance - m
                /\ accounts'[A].balance = accounts[A].balance + m]_vars

\* ------------------------------------------------------------------ target
\* what the retarget reads in a block: the spread of its timestamps (as the
\* integer type computes it) over 10 minutes per transaction, at most 4
Spread(b) ==
    (b.transactions[Len(b.transactions)].timestamp - b.transactions[1].timestamp) % U128Modulus

Ratio(b) ==
    LET raw == Spread(b) \div (Len(b.transactions) * 10 * 60) IN IF raw > 4 THEN 4 ELSE raw

Accepted(c) == c.op = "append_block" /\ c.status = "Ok"

HashAboveTarget(c) ==
    c.op = "append_block" /\ c.status = "Err" /\ c.error = "The hash of block more than target."

C12_DifficultyGate ==
    [][(AppendStep /\ BlockVerify(Arg) /\ Len(Arg.transactions) > 0 /\ ArgRun.status = "ok")
         => IF Len(blocks) = 0
            THEN ~HashAboveTarget(call')
            ELSE HashAboveTarget(call') <=> (HexValue(BlockHash(Arg)) >= target)]_vars

MinOf(a, b) == IF a < b THEN a ELSE b

\* C13: after an accepted block with n transactions whose last timestamp t1
\* is not before its first t0, the target is
\* min(T * min(floor((t1 - t0) / (n * 600)), 4), MAX), T being the target the
\* block was gated against (MAX for the first block); a rejected block
\* leaves the target as it was.
C13_RetargetFormula ==
    [][/\ (AppendStep /\ Accepted(call')
            /\ Arg.transactions[Len(Arg.transactions)].timestamp >= Arg.transactions[1].timestamp)
            => LET n == Len(Arg.transactions)
                   t0 == Arg.transactions[1].timestamp
                   t1 == Arg.transactions[n].timestamp
                   T == IF Len(blocks) = 0 THEN MaxTarget ELSE target
               IN  target' = MinOf(T * MinOf((t1 - t0) \div (n * 600), 4), MaxTarget)
       /\ (AppendStep /\ call'.status = "Err") => target' = target]_vars

FirstFailure(i) ==
    /\ PrefixRun(i).status = "ok"
    /\ Execute(Arg.transactions[i], PrefixRun(i).accounts, Len(blocks) = 0, overflow_checks).status = "err"

FailureCause(i) ==
    Execute(Arg.transactions[i], PrefixRun(i).accounts, Len(blocks) = 0, overflow_checks).cause

\* the argument cut after its transaction i, as the builder would have built it
Truncated(b, i) == UpdateHash([b EXCEPT !.transactions = SubSeq(b.transactions, 1, i)])

\* C15 as stated: when transaction i is the first of the block to fail, with
\* cause c, the error append_block returns carries the index i and the cause c.
C15_FailureCarriesIndexAndCause ==
    [][AppendStep => \A i \in 1..Len(Arg.transactions) :
          FirstFailure(i)
            => /\ call'.status = "Err"
               /\ ReturnedError(call').cause = FailureCause(i)
               /\ "index" \in DOMAIN ReturnedError(call')
               /\ ReturnedError(call').index = i - 1]_vars

\* C15 amended: when transaction i is the first of the block to fail, with
\* cause c, append_block returns one error that carries the cause c (and no
\* index), and the call leaves what it would leave had the block ended at
\* transaction i: no later transaction has an effect.
C15_FailureCarriesCause ==
    [][AppendStep => \A i \in 1..Len(Arg.transactions) :
          FirstFailure(i)
            => /\ call'.status = "Err"
               /\ ReturnedError(call') = [message |-> "Error during tx execution", cause |-> FailureCause(i)]
               /\ LET cut == AppendBlockOn(Truncated(Arg, i), target, blocks, accounts, overflow_checks) IN
                    /\ ReturnedError(call') = ReturnedError(cut.call)
                    /\ accounts' = cut.accounts /\ blocks' = cut.blocks /\ target' = cut.target
               /\ accounts' = accounts]_vars

\* a block was rejected at its first transaction, an account that exists
C15_Witness ==
    /\ TxFailed(call) /\ call.index = 0 /\ call.cause = "AccountId already exist"
    /\ Len(blocks) = 1 /\ DOMAIN accounts # {}

\* ------------------------------------------------------------------ create_account
AccountExists == "AccountId already exist"

\* C16: a CreateAccount(id, key) executed on a ledger that holds id fails with
\* the account-exists error and leaves the ledger as it is; on a ledger that
\* does not hold id it succeeds and adds id with balance 0 and that key,
\* leaving every other account as it is. A block that creates an id the
\* ledger holds is rejected and resets or re-keys nothing.
C16_CreateAccount ==
    [][AppendStep => \A i \in 1..Len(Arg.transactions) :
          LET tx == Arg.transactions[i]
              pre == PrefixRun(i).accounts
              res == Execute(tx, pre, Len(blocks) = 0, overflow_checks)
          IN  (tx.data.kind = "CreateAccount")
                => /\ (tx.data.id \in DOMAIN accounts)
                        => (call'.status = "Err" /\ accounts' = accounts)
                   /\ (PrefixRun(i).status = "ok" /\ tx.data.id \in DOMAIN pre)
                        => (res.status = "err" /\ res.cause = AccountExists /\ res.accounts = pre)
                   /\ (PrefixRun(i).status = "ok" /\ tx.data.id \notin DOMAIN pre)
                        => /\ res.status = "ok"
                           /\ DOMAIN res.accounts = DOMAIN pre \cup {tx.data.id}
                           /\ res.accounts[tx.data.id].balance = 0
                           /\ res.accounts[tx.data.id].public_key = tx.data.public_key
                           /\ \A other \in DOMAIN pre : res.accounts[other] = pre[other]]_vars

\* a block that creates alice again was rejected; alice keeps her key and
\* her minted balance
C16_Witness ==
    /\ TxFailed(call) /\ call.cause = AccountExists
    /\ "alice" \in DOMAIN accounts
    /\ accounts["alice"].public_key = "k1" /\ accounts["alice"].balance = Big

\* ------------------------------------------------------------------ structural rejection
Rejected(c, error) == c.op = "append_block" /\ c.status = "Err" /\ c.error = error

\* C17: append_block rejects a block whose verify() fails with the
\* invalid-hash error, also when the block is empty, and an empty block whose
\* verify() passes with the empty-block error; both leave the ledger, the
\* chain and the target as they were.
C17_StructuralRejection ==
    [][AppendStep
         => /\ ~BlockVerify(Arg)
                 => (Rejected(call', "Block has invalid hash") /\ call'.cause = ""
                     /\ accounts' = accounts /\ blocks' = blocks /\ target' = target)
            /\ (BlockVerify(Arg) /\ Len(Arg.transactions) = 0)
                 => (Rejected(call', "Block has 0 transactions.") /\ call'.cause = ""
                     /\ accounts' = accounts /\ blocks' = blocks /\ target' = target)]_vars

\* a block with a stale hash was rejected by a chain that holds a block
C17_Witness ==
    /\ Rejected(call, "Block has invalid hash")
    /\ Len(blocks) = 1 /\ DOMAIN accounts # {} /\ target > 0

\* ------------------------------------------------------------------ overflow guard
\* transaction i of the argument is a Transfer between accounts of the ledger,
\* signed with its sender's key over its own hash, for no more than the
\* sender holds when it executes
FundedTransfer(i) ==
    LET tx == Arg.transactions[i]
        pre == PrefixRun(i)
    IN  /\ pre.status = "ok"
        /\ tx.data.kind = "Transfer"
        /\ IsSome(tx.from) /\ Unwrap(tx.from) \in DOMAIN pre.accounts
        /\ tx.data.id \in DOMAIN pre.accounts
        /\ IsSome(tx.signature)
        /\ Unwrap(tx.signature) = Sign(pre.accounts[Unwrap(tx.from)].public_key, TransactionHash(tx))
        /\ tx.data.amount <= pre.accounts[Unwrap(tx.from)].balance

CreditAborted(c) ==
    c.status = "panic" /\ c.error = "attempt to add with overflow" /\ c.cause = "in Transaction::execute"

\* C18: a correctly signed, sufficiently funded Transfer whose amount added
\* to the receiver's balance exceeds the largest integer of the width fails
\* with the overflow error, debits nothing, and its block is rejected with
\* the ledger as before; otherwise it succeeds and the receiver holds exactly
\* its balance plus the amount (the sender its balance minus the amount). No
\* transfer wraps a balance or aborts on the credit.
C18_TransferOverflowGuard ==
    [][/\ AppendStep => \A i \in 1..Len(Arg.transactions) :
            FundedTransfer(i)
              => LET tx == Arg.transactions[i]
                     pre == PrefixRun(i).accounts
                     S == Unwrap(tx.from)
                     R == tx.data.id
                     m == tx.data.amount
                     res == Execute(tx, pre, Len(blocks) = 0, overflow_checks)
                 IN  IF pre[R].balance + m > U128Max
                     THEN /\ res.status = "err" /\ res.cause = "Type overflow"
                          /\ res.accounts = pre
                          /\ call'.status = "Err" /\ accounts' = accounts
                     ELSE /\ res.status = "ok"
                          /\ S # R => /\ res.accounts[R].balance = pre[R].balance + m
                                      /\ res.accounts[S].balance = pre[S].balance - m
                          /\ S = R => res.accounts[R].balance = pre[R].balance
       /\ Len(blocks) >= 1 => ~CreditAborted(call')
       /\ BalancesInRange(accounts')]_vars

\* a block was rejected because its transfer would take the receiver past the
\* largest integer; sender and receiver hold what they held
C18_Witness ==
    /\ TxFailed(call) /\ call.cause = "Type overflow"
    /\ Len(blocks) = 1
    /\ "alice" \in DOMAIN accounts /\ "bob" \in DOMAIN accounts
    /\ accounts["alice"].balance + accounts["bob"].balance > U128Max

\* ------------------------------------------------------------------ append-only chain
\* C19: a new Blockchain has len() 0 and no last block hash; an append_block
\* that returns Ok adds the block after the blocks the chain holds, which
\* stay as they are and in their order: len() grows by exactly 1 and the
\* head, whose hash get_last_block_hash() returns, is the block just
\* appended; every other step leaves the chain as it is.
C19_AppendOnly ==
    /\ ChainLen = 0 /\ GetLastBlockHash = None
    /\ [][IF AppendStep /\ Accepted(call')
          THEN /\ Len(blocks') = ChainLen + 1
               /\ ChainHead(blocks') = Some(Arg)
               /\ \A k \in 1..Len(blocks) : blocks'[k] = blocks[k]
          ELSE blocks' = blocks]_vars

\* a second block was appended after the first, linked to it
C19_Witness ==
    /\ Accepted(call) /\ ChainLen = 2
    /\ blocks[2].prev_hash = Some(BlockHash(blocks[1]))
    /\ GetLastBlockHash = Some(BlockHash(blocks[2]))
    /\ GetLastBlockHash # Some(BlockHash(blocks[1]))

\* ------------------------------------------------------------------ accounts stay
\* C20: an account of the ledger is in the ledger, with the same public key,
\* after every step: accepted blocks, rejected blocks and their rollback
\* remove no account and change no key (so an account present after a
\* successful append_block is present with its key in every later state).
C20_AccountsNeverDeleted ==
    [][\A id \in DOMAIN accounts :
          /\ id \in DOMAIN accounts'
          /\ accounts'[id].public_key = accounts[id].public_key]_vars

\* a later block that created bob and then failed was rolled back: bob is
\* gone with it, alice, created by the accepted first block, is still there
C20_Witness ==
    /\ TxFailed(call) /\ call.index = 1
    /\ Len(blocks) = 1
    /\ \E i \in 1..Len(blocks[1].transactions) :
          /\ blocks[1].transactions[i].data.kind = "CreateAccount"
          /\ blocks[1].transactions[i].data.id = "alice"
    /\ DOMAIN accounts = {"alice"}

\* ------------------------------------------------------------------ target collapse
\* the block passes the structural checks and all its transactions execute
Executes(b) == BlockVerify(b) /\ Len(b.transactions) > 0 /\ ArgRun.status = "ok"

\* floor((t_last - t_first) / (n * 600)) of a block, over the integers
FloorRatio(b) ==
    (b.transactions[Len(b.transactions)].timestamp - b.transactions[1].timestamp)
        \div (Len(b.transactions) * 600)

\* C21: an accepted block with floor((t_last - t_first) / (n * 600)) = 0
\* leaves the target at 0; from a state with a block and target 0 on, every
\* append_block of a later block whose transactions succeed is rejected for
\* its hash, and the chain length never grows again.
C21_TargetCollapse ==
    [][/\ (AppendStep /\ Accepted(call') /\ FloorRatio(Arg) = 0) => target' = 0
       /\ (AppendStep /\ Len(blocks) >= 1 /\ target = 0 /\ Executes(Arg))
            => HashAboveTarget(call')
       /\ (Len(blocks) >= 1 /\ target = 0)
            => (Len(blocks') = Len(blocks) /\ target' = 0)]_vars

\* ------------------------------------------------------------------ order of execution
\* a block of two transactions on one id: a mint to it and its creation
MintThenCreate(b) ==
    /\ Len(b.transactions) = 2
    /\ b.transactions[1].data.kind = "MintInitialSupply"
    /\ b.transactions[2].data.kind = "CreateAccount"
    /\ b.transactions[2].data.id = b.transactions[1].data.id

CreateThenMint(b) ==
    /\ Len(b.transactions) = 2
    /\ b.transactions[1].data.kind = "CreateAccount"
    /\ b.transactions[2].data.kind = "MintInitialSupply"
    /\ b.transactions[2].data.id = b.transactions[1].data.id

\* C22: each transaction of a block executes on the ledger the transactions
\* before it left: a first block that mints to id before it creates id is
\* rejected with the unknown-account cause and leaves the ledger and the chain
\* empty, and a first block with the same two transactions in the opposite
\* order is accepted.
C22_ExecutionOrder ==
    [][(AppendStep /\ Len(blocks) = 0 /\ BlockVerify(Arg))
         => /\ MintThenCreate(Arg)
                 => /\ TxFailed(call') /\ call'.index = 0 /\ call'.cause = "Invalid account."
                    /\ accounts' = <<>> /\ blocks' = <<>>
            /\ CreateThenMint(Arg)
                 => /\ Accepted(call')
                    /\ Len(blocks') = 1
                    /\ Arg.transactions[1].data.id \in DOMAIN accounts']_vars

\* ------------------------------------------------------------------ completion
\* the last transaction of the block is stamped before its first
TimeRunsBack(b) ==
    b.transactions[Len(b.transactions)].timestamp < b.transactions[1].timestamp

\* C23: every append_block call finishes with Ok or Err; a block whose
\* transactions all execute and whose last timestamp is smaller than its
\* first does not abort in the subtraction of the retarget step, and is not
\* left executed on the ledger without being appended.
C23_AlwaysCompletes ==
    [][AppendStep
         => /\ call'.status \in {"Ok", "Err"}
            /\ (Executes(Arg) /\ TimeRunsBack(Arg))
                 => /\ call'.error # "attempt to subtract with overflow"
                    /\ blocks' = blocks => accounts' = accounts]_vars

\* ------------------------------------------------------------------ supply
\* the sum of the balances of the accounts with these ids
RECURSIVE SumOver(_, _)
SumOver(accts, ids) ==
    IF ids = {} THEN 0
    ELSE LET id == CHOOSE x \in ids : TRUE IN accts[id].balance + SumOver(accts, ids \ {id})

TotalSupply(accts) == SumOver(accts, DOMAIN accts)

\* what a transfer of m from S to R does to the balance of id
TransferDelta(id, S, R, m) == (IF id = R THEN m ELSE 0) - (IF id = S THEN m ELSE 0)

\* C24: once the chain holds a block no step changes the sum of all
\* balances; a Transfer that executes moves its amount from its sender to its
\* receiver (nothing when they are the same account) and touches no other
\* balance; the sum grows only in an append_block of a first block that
\* carries a MintInitialSupply.
C24_SupplyConserved ==
    [][/\ Len(blocks) >= 1 => TotalSupply(accounts') = TotalSupply(accounts)
       /\ TotalSupply(accounts') > TotalSupply(accounts)
            => (AppendStep /\ Len(blocks) = 0 /\ HasMint(Arg))
       /\ AppendStep => \A i \in 1..Len(Arg.transactions) :
            LET tx == Arg.transactions[i]
                pre == PrefixRun(i)
                res == Execute(tx, pre.accounts, Len(blocks) = 0, overflow_checks)
            IN  (pre.status = "ok" /\ tx.data.kind = "Transfer" /\ res.status = "ok")
                  => /\ DOMAIN res.accounts = DOMAIN pre.accounts
                     /\ \A id \in DOMAIN pre.accounts :
                          res.accounts[id].balance =
                            pre.accounts[id].balance + TransferDelta(id, Unwrap(tx.from), tx.data.id, tx.data.amount)
                     /\ TotalSupply(res.accounts) = TotalSupply(pre.accounts)]_vars

\* a second block with a transfer was accepted: the balances changed and
\* their sum is what the first block minted
C24_Witness ==
    /\ Accepted(call) /\ Len(blocks) = 2
    /\ \E i \in 1..Len(blocks[2].transactions) : blocks[2].transactions[i].data.kind = "Transfer"
    /\ TotalSupply(accounts) > 0
    /\ \E id \in DOMAIN accounts : accounts[id].balance = 0

\* ------------------------------------------------------------------ frame of a rejection
\* C25: an append_block call that returns an error leaves the stored blocks
\* (so len() and get_last_block_hash()) and the target as they were before
\* the call; a rejected first block leaves the chain empty, so that the next
\* block is executed as the first block again.
C25_RejectionFrame ==
    [][(AppendStep /\ call'.status = "Err")
         => /\ blocks' = blocks
            /\ Len(blocks') = ChainLen
            /\ ChainHead(blocks') = ChainHead(blocks)
            /\ target' = target
            /\ ChainLen = 0 => (blocks' = <<>> /\ target' = 0)]_vars

\* a later block whose transactions executed was rejected for its hash by a
\* chain that holds one block, against a target that is not 0
C25_Witness ==
    /\ HashAboveTarget(call) /\ ChainLen = 1 /\ target > 0
    /\ DOMAIN accounts # {}

====
